---- MODULE Spec2Model ----
(***************************************************************************)
(* Model of ads_helpers.py (selector resolution, project/profile loading,  *)
(* the Ads facade, service-manifest enumeration) and of the path cache     *)
(* described by the specification and exercised by tests/unit/test_cache.  *)
(***************************************************************************)
EXTENDS Integers, Sequences, FiniteSets, TLC

VARIABLES
    svc_ymls,       \* paths of the service manifests handed to Project.load_from_files
    svc_spec,       \* what lies at each of them: a directory, or an ads.yml [description]
    root_spec,      \* parsed adsroot.yml: [groups, default]
    profile_spec,   \* parsed .ads_profile.yml: [groups, default]
    result,         \* outcome of the last invocation
    fs_files,       \* ads.yml / adsroot.yml files in the tree under the project root
    found,          \* what the last _find_service_ymls returned
    find_proc,      \* the find child process: whether it runs, the lines of the
                    \* tree it was started on, the lines it has printed
    cache_file,     \* content of the cache file on disk
    temp_file,      \* per process: content of its temporary file
    pc,             \* per process: where it stands in load / write
    mem,            \* per process: the in-memory mapping of its Cache object
    last_written,   \* per process: latest path it passed to writeToCache, per name
    last_root,      \* per process: manifest path of its latest writeToCache
    last_adsroot,   \* per process: the path its latest writeToCache had under the
                    \* key "adsroot" of the updates, None without that key
    wrote,          \* every (name, path) some process wrote: an entry of the
                    \* updates or the synthetic entry of a writeToCache, or
                    \* the live lookup a get wrote through
    half_loaded     \* per process: its last load read a partly written file

rvars == <<svc_ymls, svc_spec, root_spec, profile_spec, result>>

fvars == <<fs_files, found, find_proc>>

cvars == <<cache_file, temp_file, pc, mem, last_written, last_root, last_adsroot, wrote,
           half_loaded>>

vars == <<svc_ymls, svc_spec, root_spec, profile_spec, result, fs_files, found, find_proc,
          cache_file, temp_file, pc, mem, last_written, last_root, last_adsroot, wrote,
          half_loaded>>

(***************************************************************************)
(* Bounds and input universes                                              *)
(***************************************************************************)
\* total number of keys and list items of the manifests: service manifests
\* and their descriptions, groups (one for an empty group, else one per
\* member) and defaults
MaxEntries == 3

\* Python's None
None == "<None>"

\* file names, as their characters
ADS_YML == <<"a", "d", "s", ".", "y", "m", "l">>

ADSROOT_YML == <<"a", "d", "s", "r", "o", "o", "t", ".", "y", "m", "l">>

PROJECT_ROOT == <<"/", "p">>

\* directories under the project root that may hold an ads.yml, as the
\* characters of their names
ServiceDirs == {<<"a">>, <<"b">>}

\* keys that may appear under "groups" in adsroot.yml
GroupNames == {"a", "b", "x", "all"}

\* keys that may appear under "groups" in .ads_profile.yml
ProfileGroupNames == {"a", "b"}

\* strings that may appear as a selector
Selectors == {"", "all", "a", "b", "x"}

\* values the "default" key of a manifest may take when present
DefaultValues == {"", "a", "b"}

\* values the "description" key of an ads.yml may take when present
Descriptions == {"", "the service"}

NoResult == [op |-> "none"]

\* files created in the tree under the project root
MaxFiles == 3

\* nesting of directories below the project root
MaxDepth == 2

\* directory names, as their characters
DirNames == {<<"a">>, <<"a", "d">>, ADS_YML, ADSROOT_YML}

NotSearched == <<"<not searched>">>

\* no find process has been started
NoFind == [running |-> FALSE, start |-> {}, printed |-> <<>>]

\* group names and member selectors of the manifests in which one group is
\* reached along several paths
PathGroupNames == {"a", "b", "c", "d"}

PathMembers == {"b", "c", "d", "all"}

\* the selector lists a group of those manifests may have: up to two
\* selectors for a and b, up to one for c and d
PathLists(name) ==
    {<<>>} \cup {<<m>> : m \in PathMembers}
           \cup (IF name \in {"a", "b"}
                 THEN {<<m, n>> : m \in PathMembers, n \in PathMembers}
                 ELSE {})

\* names of the manifests in which one name is borne by a service, a project
\* group and a profile group at once
LookupServiceDirs == {<<"a">>, <<"a", "l", "l">>}

LookupGroupNames == {"a", "g", "all"}

LookupProfileGroupNames == {"a", "g"}

LookupMembers == {"a", "b", "g", "all"}

LookupSelectors == {"a", "b", "g", "all"}

\* the selector lists of the project's groups and of the profile's groups
LookupRootLists == {<<>>} \cup {<<m>> : m \in LookupMembers}

LookupProfileLists(name) ==
    {<<>>} \cup {<<m>> : m \in LookupMembers \ {"g"}}
           \cup (IF name = "g"
                 THEN {<<m, n>> : m \in LookupMembers \ {"g"}, n \in LookupMembers \ {"g"}}
                 ELSE {})

\* processes racing on one cache file
Procs == {"p1", "p2"}

\* keys of the cache: the reserved key and service names
CacheNames == {"adsroot", "svc"}

\* manifest paths handed to writeToCache as updates or found by discovery
ServicePaths == {"/p/svc/ads.yml", "/p/adsroot/ads.yml"}

\* project manifest paths
RootPaths == {"/p/adsroot.yml"}

\* the round trip of one Cache object: its process, the keys and the project
\* manifest paths of its writes
RoundTripProcs == {"p1"}

RoundTripNames == {"adsroot", "svc", "web"}

RoundTripRootPaths == {"/p/adsroot.yml", "/q/adsroot.yml"}

\* no file at a path
Absent == [exists |-> FALSE, entries |-> <<>>, complete |-> FALSE]

(***************************************************************************)
(* Generic helpers                                                         *)
(***************************************************************************)
Range(seq) == {seq[i] : i \in DOMAIN seq}

EmptyMap == [n \in {} |-> <<>>]

\* dict + one key (later binding wins)
MapPut(m, k, v) == [n \in DOMAIN m \cup {k} |-> IF n = k THEN v ELSE m[n]]

\* Python truthiness of an optional string
Truthy(v) == v # None /\ v # ""

\* the keys and list items of a "groups" mapping
RECURSIVE SumLens(_)
SumLens(m) ==
    IF DOMAIN m = {} THEN 0
    ELSE LET k == CHOOSE n \in DOMAIN m : TRUE
         IN  (IF m[k] = <<>> THEN 1 ELSE Len(m[k]))
                + SumLens([n \in DOMAIN m \ {k} |-> m[n]])

\* the orders in which iteration over a dict / frozenset with the keys S, or
\* the listing of a directory tree, may yield them
RECURSIVE Enumerations(_)
Enumerations(S) ==
    IF S = {} THEN {<<>>}
    ELSE UNION {{<<e>> \o order : order \in Enumerations(S \ {e})} : e \in S}

\* the items of seq that are in keep, in the order of seq
RECURSIVE Filter(_, _)
Filter(seq, keep) ==
    IF seq = <<>> THEN <<>>
    ELSE (IF Head(seq) \in keep THEN <<Head(seq)>> ELSE <<>>) \o Filter(Tail(seq), keep)

(***************************************************************************)
(* Paths                                                                   *)
(***************************************************************************)
RECURSIVE JoinDirs(_)
JoinDirs(dir) ==
    IF dir = <<>> THEN <<>> ELSE <<"/">> \o Head(dir) \o JoinDirs(Tail(dir))

\* the path of a directory relative to the project root, as find prints it
DirLine(dir) == <<".">> \o JoinDirs(dir)

\* the line find prints for a file: ./dir/.../name
FindLine(f) == <<".">> \o JoinDirs(f.dir) \o <<"/">> \o f.name

\* the index of the last "/" at or before i
RECURSIVE LastSlashUpTo(_, _)
LastSlashUpTo(path, i) ==
    IF path[i] = "/" THEN i ELSE LastSlashUpTo(path, i - 1)

LastSlash(path) == LastSlashUpTo(path, Len(path))

\* os.path.basename, os.path.dirname (paths here always hold a "/")
basename(path) == SubSeq(path, LastSlash(path) + 1, Len(path))

dirname(path) == SubSeq(path, 1, LastSlash(path) - 1)

\* str.startswith
startswith(str, prefix) ==
    Len(prefix) <= Len(str) /\ SubSeq(str, 1, Len(prefix)) = prefix

\* os.path.join(a, p): an absolute p replaces a, and no separator is added
\* to an empty a or to one that ends with a separator
path_join(a, p) ==
    IF p # <<>> /\ p[1] = "/" THEN p
    ELSE IF a = <<>> \/ a[Len(a)] = "/" THEN a \o p
    ELSE a \o <<"/">> \o p

\* a string of the model, from its characters
RECURSIVE text(_)
text(chars) == IF chars = <<>> THEN "" ELSE Head(chars) \o text(Tail(chars))

\* the path find-and-join gives the ads.yml of a directory under the root
manifest_path(dir) ==
    path_join(PROJECT_ROOT, FindLine([dir |-> <<dir>>, name |-> ADS_YML]))

\* what _load_spec_file reads at a path: a directory, or a parsed ads.yml
Directory == [is_dir |-> TRUE, description |-> None]

Manifest(description) == [is_dir |-> FALSE, description |-> description]

(***************************************************************************)
(* Service                                                                 *)
(***************************************************************************)
\* Service.__init__, as far as listing and resolution read it
Service(name, description) == [name |-> name, description |-> description]

\* Service.load: spec.get("description") of the parsed ads.yml
Service_load(spec, name) == Service(name, spec.description)

get_description_or_default(service) ==
    IF Truthy(service.description) THEN service.description ELSE "(No description)"

(***************************************************************************)
(* ServiceSet and _resolve                                                 *)
(***************************************************************************)
ServiceSet(name, selector_set) == [name |-> name, selectors |-> selector_set]

\* ServiceSet.load_multiple: one ServiceSet per item of the "groups" mapping,
\* in the order items_order in which spec.items() yields the keys
load_multiple(spec, items_order) ==
    [i \in DOMAIN items_order |-> ServiceSet(items_order[i], spec[items_order[i]])]

\* ServiceSet.load_default
load_default(spec) == IF ~Truthy(spec) THEN None ELSE spec

\* variant: the first set of a name wins
sets_by_name_first_wins(service_sets) ==
    [n \in {service_sets[i].name : i \in DOMAIN service_sets} |->
        service_sets[CHOOSE i \in DOMAIN service_sets :
            /\ service_sets[i].name = n
            /\ \A j \in DOMAIN service_sets : service_sets[j].name = n => i <= j]]

\* dict((s.name, s) for s in service_sets): the last set of a name wins
sets_by_name(service_sets) ==
    [n \in {service_sets[i].name : i \in DOMAIN service_sets} |->
        service_sets[CHOOSE i \in DOMAIN service_sets :
            /\ service_sets[i].name = n
            /\ \A j \in DOMAIN service_sets : service_sets[j].name = n => j <= i]]

\* a normal return; calls is the record of the invocations of _resolve made
\* so far, in the order they were entered
Returned(value, stack, calls) ==
    [kind |-> "ok", value |-> value, named |-> "", chain |-> <<>>,
     stack |-> stack, calls |-> calls]

\* an exception: kind is the message (Circular, Unresolved: the two
\* BadSelectorException) or the exception type, named and chain its arguments
Raised(kind, named, chain, stack, calls) ==
    [kind |-> kind, value |-> {}, named |-> named, chain |-> chain,
     stack |-> stack, calls |-> calls]

\* one invocation: its arguments, how it ended and the stack it left
Invocation(selector, selector_stack, r) ==
    [selector |-> selector, stack |-> selector_stack,
     kind |-> r.kind, value |-> r.value, after |-> r.stack]

\* variant: popitem(False), which drops the oldest key
popitem_first(stack) == SubSeq(stack, 2, Len(stack))

\* OrderedDict.popitem(True): drop the most recently inserted key
popitem(stack) == SubSeq(stack, 1, Len(stack) - 1)

\* reduce(frozenset.__or__, sub_results), no initial value
RECURSIVE reduce_or(_)
reduce_or(sub_results) ==
    IF Len(sub_results) = 1 THEN sub_results[1]
    ELSE reduce_or(SubSeq(sub_results, 1, Len(sub_results) - 1))
            \cup sub_results[Len(sub_results)]

\* variant: the chain starts at the first occurrence of the repeated selector
circular_from_first_occurrence(selector, selector_stack) ==
    LET first == CHOOSE i \in DOMAIN selector_stack : selector_stack[i] = selector
        stack_as_list ==
            Append(SubSeq(selector_stack, first, Len(selector_stack)), selector)
    IN  Raised("Circular", stack_as_list[1], stack_as_list, selector_stack, <<>>)

\* raise BadSelectorException("Definition of selector '%s' is circular: %s")
circular(selector, selector_stack) ==
    LET stack_as_list == Append(selector_stack, selector)
    IN  Raised("Circular", stack_as_list[1], stack_as_list, selector_stack, <<>>)

\* variant: the chain is the stack alone, without the selector looked up
unresolved_stack_only(selector, selector_stack) ==
    Raised("Unresolved", selector, selector_stack, selector_stack, <<>>)

\* raise BadSelectorException("No service or selector named '%s'. Reference chain: %s")
unresolved(selector, selector_stack) ==
    LET stack_as_list == Append(selector_stack, selector)
    IN  Raised("Unresolved", selector, stack_as_list, selector_stack, <<>>)

RECURSIVE _resolve(_, _, _, _)
RECURSIVE map_resolve(_, _, _, _, _, _)

\* map(lambda s: _resolve(s, ...), selectors): left to right, the first
\* exception ends the map; value is the list of sub results
map_resolve(selectors, project, service_sets_by_name, selector_stack, sub_results, calls) ==
    IF selectors = <<>> THEN Returned(sub_results, selector_stack, calls)
    ELSE LET r == _resolve(Head(selectors), project, service_sets_by_name, selector_stack)
         IN  IF r.kind # "ok" THEN [r EXCEPT !.calls = calls \o @]
             ELSE map_resolve(Tail(selectors), project, service_sets_by_name,
                              r.stack, Append(sub_results, r.value), calls \o r.calls)

\* variant: a group is looked up before the literal "all"
_resolve_group_before_all(selector, project, service_sets_by_name, selector_stack) ==
    LET r ==
        IF selector = "" THEN
            Raised("AssertionError", selector, <<>>, selector_stack, <<>>)
        ELSE IF selector \in Range(selector_stack) THEN
            circular(selector, selector_stack)
        ELSE IF selector \in DOMAIN project.services_by_name THEN
            Returned({project.services_by_name[selector].name}, selector_stack, <<>>)
        ELSE IF selector \in DOMAIN service_sets_by_name THEN
            LET pushed == Append(selector_stack, selector)
                sub == map_resolve(service_sets_by_name[selector].selectors, project,
                                   service_sets_by_name, pushed, <<>>, <<>>)
            IN  IF sub.kind # "ok" THEN sub
                ELSE IF sub.value = <<>> THEN
                    Raised("TypeError", selector, <<>>, popitem(sub.stack), sub.calls)
                ELSE Returned(reduce_or(sub.value), popitem(sub.stack), sub.calls)
        ELSE IF selector = "all" THEN
            Returned(DOMAIN project.services_by_name, selector_stack, <<>>)
        ELSE
            unresolved(selector, selector_stack)
    IN  [r EXCEPT !.calls = <<Invocation(selector, selector_stack, r)>> \o @]

_resolve(selector, project, service_sets_by_name, selector_stack) ==
    LET r ==
        IF selector = "" THEN
            Raised("AssertionError", selector, <<>>, selector_stack, <<>>)
        ELSE IF selector \in Range(selector_stack) THEN
            circular(selector, selector_stack)
        ELSE IF selector = "all" THEN
            Returned(DOMAIN project.services_by_name, selector_stack, <<>>)
        ELSE IF selector \in DOMAIN project.services_by_name THEN
            Returned({project.services_by_name[selector].name}, selector_stack, <<>>)
        ELSE IF selector \in DOMAIN service_sets_by_name THEN
            LET pushed == Append(selector_stack, selector)
                sub == map_resolve(service_sets_by_name[selector].selectors, project,
                                   service_sets_by_name, pushed, <<>>, <<>>)
            IN  IF sub.kind # "ok" THEN sub
                ELSE IF sub.value = <<>> THEN
                    Raised("TypeError", selector, <<>>, popitem(sub.stack), sub.calls)
                ELSE Returned(reduce_or(sub.value), popitem(sub.stack), sub.calls)
        ELSE
            unresolved(selector, selector_stack)
    IN  [r EXCEPT !.calls = <<Invocation(selector, selector_stack, r)>> \o @]

\* ServiceSet.resolve
ServiceSet_resolve(selector, project, service_sets) ==
    _resolve(selector, project, sets_by_name(service_sets), <<>>)

(***************************************************************************)
(* Project, Profile                                                        *)
(***************************************************************************)
\* os.path.basename(os.path.dirname(f)): the name a manifest gives its service
service_name(f) == text(basename(dirname(f)))

\* _adsfiles_to_service_names: file -> service name, or the exception raised
\* when two of the files give one name
_adsfiles_to_service_names(adsfiles) ==
    LET names == [i \in DOMAIN adsfiles |-> service_name(adsfiles[i])]
    IN  IF \E i, j \in DOMAIN adsfiles : i < j /\ names[i] = names[j]
        THEN [kind |-> "Exception", file_to_svc_name |-> EmptyMap]
        ELSE [kind |-> "ok",
              file_to_svc_name |-> [f \in Range(adsfiles) |->
                    names[CHOOSE i \in DOMAIN adsfiles : adsfiles[i] = f]]]

\* a load that ended with an exception
LoadFailed(kind) ==
    [kind |-> kind, services_by_name |-> EmptyMap, service_sets |-> <<>>,
     default_selector |-> None]

\* Project.load_from_files (with Project.__init__): ymls is the list of
\* manifest paths, ymls_spec what lies at each path
Project_load_from_files(spec, ymls, ymls_spec, items_order) ==
    LET names == _adsfiles_to_service_names(ymls)
        by_name == [n \in {names.file_to_svc_name[f] : f \in DOMAIN names.file_to_svc_name} |->
                        CHOOSE f \in DOMAIN names.file_to_svc_name :
                            names.file_to_svc_name[f] = n]
    IN  IF names.kind # "ok" THEN LoadFailed(names.kind)
        ELSE IF \E f \in Range(ymls) : ymls_spec[f].is_dir THEN LoadFailed("IOError")
        ELSE [kind |-> "ok",
              services_by_name |->
                    [n \in DOMAIN by_name |-> Service_load(ymls_spec[by_name[n]], n)],
              service_sets     |-> load_multiple(spec.groups, items_order),
              default_selector |-> IF load_default(spec.default) # None
                                   THEN load_default(spec.default) ELSE "all"]

\* Profile.load_from_dir (with Profile.__init__)
Profile_load_from_dir(rc_spec, items_order) ==
    [service_sets     |-> load_multiple(rc_spec.groups, items_order),
     default_selector |-> load_default(rc_spec.default)]

project(items_order) ==
    Project_load_from_files(root_spec, svc_ymls, svc_spec, items_order)

profile(items_order) == Profile_load_from_dir(profile_spec, items_order)

(***************************************************************************)
(* Manifest authoring (the inputs of an invocation)                        *)
(***************************************************************************)
Entries ==
    Len(svc_ymls) + SumLens(root_spec.groups) + SumLens(profile_spec.groups)
        + Cardinality({f \in DOMAIN svc_spec : svc_spec[f].description # None})
        + (IF root_spec.default # None THEN 1 ELSE 0)
        + (IF profile_spec.default # None THEN 1 ELSE 0)

AddService(n) ==
    /\ result = NoResult
    /\ n \notin Range(svc_ymls)
    /\ Entries < MaxEntries
    /\ svc_ymls' = Append(svc_ymls, n)
    /\ svc_spec' = MapPut(svc_spec, n, Manifest(None))
    /\ UNCHANGED <<root_spec, profile_spec, result, fvars, cvars>>

SetDescription(n, d) ==
    /\ result = NoResult
    /\ n \in Range(svc_ymls)
    /\ svc_spec[n].description = None
    /\ Entries < MaxEntries
    /\ svc_spec' = [svc_spec EXCEPT ![n].description = d]
    /\ UNCHANGED <<svc_ymls, root_spec, profile_spec, result, fvars, cvars>>

DefineGroup(n) ==
    /\ result = NoResult
    /\ n \notin DOMAIN root_spec.groups
    /\ Entries < MaxEntries
    /\ root_spec' = [root_spec EXCEPT !.groups = MapPut(@, n, <<>>)]
    /\ UNCHANGED <<svc_ymls, svc_spec, profile_spec, result, fvars, cvars>>

AppendMember(n, s) ==
    /\ result = NoResult
    /\ n \in DOMAIN root_spec.groups
    /\ root_spec.groups[n] = <<>> \/ Entries < MaxEntries
    /\ root_spec' = [root_spec EXCEPT !.groups[n] = Append(@, s)]
    /\ UNCHANGED <<svc_ymls, svc_spec, profile_spec, result, fvars, cvars>>

(***************************************************************************)
(* Manifest authoring: the profile and the default keys                    *)
(***************************************************************************)
ProfileDefineGroup(n) ==
    /\ result = NoResult
    /\ n \notin DOMAIN profile_spec.groups
    /\ Entries < MaxEntries
    /\ profile_spec' = [profile_spec EXCEPT !.groups = MapPut(@, n, <<>>)]
    /\ UNCHANGED <<svc_ymls, svc_spec, root_spec, result, fvars, cvars>>

ProfileAppendMember(n, s) ==
    /\ result = NoResult
    /\ n \in DOMAIN profile_spec.groups
    /\ profile_spec.groups[n] = <<>> \/ Entries < MaxEntries
    /\ profile_spec' = [profile_spec EXCEPT !.groups[n] = Append(@, s)]
    /\ UNCHANGED <<svc_ymls, svc_spec, root_spec, result, fvars, cvars>>

SetRootDefault(d) ==
    /\ result = NoResult
    /\ root_spec.default = None
    /\ Entries < MaxEntries
    /\ root_spec' = [root_spec EXCEPT !.default = d]
    /\ UNCHANGED <<svc_ymls, svc_spec, profile_spec, result, fvars, cvars>>

SetProfileDefault(d) ==
    /\ result = NoResult
    /\ profile_spec.default = None
    /\ Entries < MaxEntries
    /\ profile_spec' = [profile_spec EXCEPT !.default = d]
    /\ UNCHANGED <<svc_ymls, svc_spec, root_spec, result, fvars, cvars>>

(***************************************************************************)
(* Ads                                                                     *)
(***************************************************************************)
\* variant: the project's default is preferred to the profile's
get_default_selector_project_first(ads) ==
    IF Truthy(ads.project.default_selector) THEN ads.project.default_selector
    ELSE ads.profile.default_selector

\* Ads.get_default_selector
get_default_selector(ads) ==
    IF Truthy(ads.profile.default_selector) THEN ads.profile.default_selector
    ELSE ads.project.default_selector

\* Ads.resolve
Ads_resolve(ads, selector) ==
    LET sel == IF selector = "default" THEN get_default_selector(ads) ELSE selector
    IN  ServiceSet_resolve(sel, ads.project,
                           ads.project.service_sets \o ads.profile.service_sets)

\* ', '.join(iterable): the items of the list, separated by ", "
RECURSIVE join(_)
join(iterable) ==
    IF iterable = <<>> THEN ""
    ELSE IF Len(iterable) = 1 THEN iterable[1]
    ELSE iterable[1] \o ", " \o join(Tail(iterable))

\* Ads.list, up to the printing of the listing; names_order is the order in
\* which iteration over a frozenset of service names yields them
Ads_list(ads, names_order) ==
    LET default_selector == get_default_selector(ads)
        r == Ads_resolve(ads, default_selector)
        caught == r.kind \in {"Circular", "Unresolved"}
        default_description ==
            IF caught THEN "(Unresolved)" ELSE join(Filter(names_order, r.value))
    IN  IF r.kind # "ok" /\ ~caught THEN
            [kind |-> r.kind, default_selector |-> default_selector,
             default_description |-> ""]
        ELSE IF default_description = default_selector THEN
            IF default_selector \in DOMAIN ads.project.services_by_name THEN
                [kind |-> "ok", default_selector |-> default_selector,
                 default_description |->
                    get_description_or_default(
                        ads.project.services_by_name[default_selector])]
            ELSE [kind |-> "KeyError", default_selector |-> default_selector,
                  default_description |-> ""]
        ELSE [kind |-> "ok", default_selector |-> default_selector,
              default_description |-> default_description]

\* Ads.load_from_fs: an exception of the project's load ends it
ads_loaded(project_order, profile_order) ==
    LET loaded == project(project_order)
    IN  [kind |-> loaded.kind, project |-> loaded, profile |-> profile(profile_order)]

\* the outcome of an invocation whose project did not load
NotLoaded(kind) == Raised(kind, "", <<>>, <<>>, <<>>)

\* the service names of a list of manifests
service_names(ymls) == {service_name(ymls[i]) : i \in DOMAIN ymls}

(***************************************************************************)
(* Invocations                                                             *)
(***************************************************************************)
Resolve(selector) ==
    /\ result = NoResult
    /\ \E o \in Enumerations(DOMAIN root_spec.groups) :
        LET loaded == project(o)
        IN  result' = [op |-> "resolve", selector |-> selector,
                       out |-> IF loaded.kind # "ok" THEN NotLoaded(loaded.kind)
                               ELSE ServiceSet_resolve(selector, loaded,
                                                       loaded.service_sets)]
    /\ UNCHANGED <<svc_ymls, svc_spec, root_spec, profile_spec, fvars, cvars>>

AdsResolve(selector) ==
    /\ result = NoResult
    /\ \E o \in Enumerations(DOMAIN root_spec.groups),
          q \in Enumerations(DOMAIN profile_spec.groups) :
        LET ads == ads_loaded(o, q)
        IN  result' = [op |-> "ads_resolve", selector |-> selector,
                       out |-> IF ads.kind # "ok" THEN NotLoaded(ads.kind)
                               ELSE Ads_resolve(ads, selector)]
    /\ UNCHANGED <<svc_ymls, svc_spec, root_spec, profile_spec, fvars, cvars>>

AdsList ==
    /\ result = NoResult
    /\ \E o \in Enumerations(DOMAIN root_spec.groups),
          q \in Enumerations(DOMAIN profile_spec.groups),
          names_order \in Enumerations(service_names(svc_ymls)) :
        LET ads == ads_loaded(o, q)
        IN  result' = [op |-> "list", selector |-> "default",
                       out |-> IF ads.kind # "ok"
                               THEN [kind |-> ads.kind, default_selector |-> "",
                                     default_description |-> ""]
                               ELSE Ads_list(ads, names_order)]
    /\ UNCHANGED <<svc_ymls, svc_spec, root_spec, profile_spec, fvars, cvars>>

InitCache ==
    /\ cache_file = Absent
    /\ temp_file = [p \in Procs |-> Absent]
    /\ pc = [p \in Procs |-> "start"]
    /\ mem = [p \in Procs |-> EmptyMap]
    /\ last_written = [p \in Procs |-> EmptyMap]
    /\ last_root = [p \in Procs |-> None]
    /\ last_adsroot = [p \in Procs |-> None]
    /\ wrote = {}
    /\ half_loaded = [p \in Procs |-> FALSE]

InitTree == fs_files = {} /\ found = NotSearched /\ find_proc = NoFind

InitManifests ==
    /\ svc_ymls = <<>>
    /\ svc_spec = EmptyMap
    /\ root_spec = [groups |-> EmptyMap, default |-> None]
    /\ profile_spec = [groups |-> EmptyMap, default |-> None]
    /\ result = NoResult

Init == InitManifests /\ InitTree /\ InitCache

\* resolution over the project's own groups
Next ==
    \/ \E d \in ServiceDirs : AddService(manifest_path(d))
    \/ \E n \in GroupNames : DefineGroup(n)
    \/ \E n \in GroupNames, s \in Selectors : AppendMember(n, s)
    \/ \E s \in Selectors : Resolve(s)

Spec == Init /\ [][Next]_vars

\* the facade over project and profile
NextAds ==
    \/ \E d \in ServiceDirs : AddService(manifest_path(d))
    \/ \E n \in ServiceDirs, d \in Descriptions : SetDescription(manifest_path(n), d)
    \/ \E n \in ProfileGroupNames : DefineGroup(n)
    \/ \E n \in ProfileGroupNames, s \in Selectors : AppendMember(n, s)
    \/ \E n \in ProfileGroupNames : ProfileDefineGroup(n)
    \/ \E n \in ProfileGroupNames, s \in Selectors : ProfileAppendMember(n, s)
    \/ \E d \in DefaultValues : SetRootDefault(d)
    \/ \E d \in DefaultValues : SetProfileDefault(d)
    \/ \E s \in Selectors \cup {"default"} : AdsResolve(s)
    \/ AdsList

SpecAds == Init /\ [][NextAds]_vars

\* resolution over an adsroot.yml with four groups of up to two selectors
InitPaths ==
    /\ svc_ymls = <<>>
    /\ svc_spec = EmptyMap
    /\ root_spec \in {[groups |-> g, default |-> None] :
                          g \in {f \in [PathGroupNames -> PathLists("a")] :
                                    \A n \in PathGroupNames : f[n] \in PathLists(n)}}
    /\ profile_spec = [groups |-> EmptyMap, default |-> None]
    /\ result = NoResult
    /\ InitTree
    /\ InitCache

NextPaths == \E s \in PathGroupNames : Resolve(s)

SpecPaths == InitPaths /\ [][NextPaths]_vars

\* the facade over manifests in which services, project groups and profile
\* groups share names
InitLookup ==
    /\ svc_ymls \in UNION {Enumerations({manifest_path(d) : d \in D}) :
                                D \in SUBSET LookupServiceDirs}
    /\ svc_spec = [f \in Range(svc_ymls) |-> Manifest(None)]
    /\ root_spec \in {[groups |-> g, default |-> None] :
                          g \in [LookupGroupNames -> LookupRootLists]}
    /\ profile_spec \in {[groups |-> g, default |-> None] :
                             g \in UNION {{f \in [D -> LookupProfileLists("g")] :
                                                \A n \in D : f[n] \in LookupProfileLists(n)} :
                                              D \in SUBSET LookupProfileGroupNames}}
    /\ result = NoResult
    /\ InitTree
    /\ InitCache

NextLookup == \E s \in LookupSelectors : AdsResolve(s)

SpecLookup == InitLookup /\ [][NextLookup]_vars


(***************************************************************************)
(* Service-manifest enumeration                                            *)
(***************************************************************************)
\* the directories of a tree: every directory on the path of a file
Dirs(files) == UNION {{SubSeq(f.dir, 1, k) : k \in 1..Len(f.dir)} : f \in files}

\* /usr/bin/find . -mindepth 2 -name ads.yml -or -name adsroot.yml: the lines
\* for a tree. The name alone is tested, so a directory of one of the two
\* names is printed like a file.
find_lines(files) ==
    {FindLine(f) : f \in {g \in files :
        Len(g.dir) >= 1 /\ g.name \in {ADS_YML, ADSROOT_YML}}}
    \cup {DirLine(d) : d \in {e \in Dirs(files) :
        Len(e) >= 2 /\ e[Len(e)] \in {ADS_YML, ADSROOT_YML}}}

\* in_nested_project_dir, with the list it closes over as a parameter
in_nested_project_dir(nested_project_dirs, path_str) ==
    \E i \in DOMAIN nested_project_dirs :
        startswith(path_str, nested_project_dirs[i])

\* _find_service_ymls, from the lines find printed
_find_service_ymls(project_root, find_output) ==
    LET roots == Filter(find_output,
                    {p \in Range(find_output) : basename(p) = ADSROOT_YML})
        nested_project_dirs == [i \in DOMAIN roots |-> dirname(roots[i])]
        kept == Filter(find_output, {p \in Range(find_output) :
                    basename(p) = ADS_YML
                        /\ ~in_nested_project_dir(nested_project_dirs, p)})
    IN  [i \in DOMAIN kept |-> path_join(project_root, kept[i])]

\* the directories a tree of the bounded depth can hold, root included
RECURSIVE DirsOfDepth(_)
DirsOfDepth(d) ==
    IF d = 0 THEN {<<>>}
    ELSE {Append(dir, n) : dir \in DirsOfDepth(d - 1), n \in DirNames}

AllDirs == UNION {DirsOfDepth(d) : d \in 0..MaxDepth}

\* no path of the tree is both a file and a directory
IsTree(files) == \A f \in files : Append(f.dir, f.name) \notin Dirs(files)

\* another process creates a file (and the directories on its path)
CreateFile(dir, name) ==
    /\ found = NotSearched
    /\ Cardinality(fs_files) < MaxFiles
    /\ [dir |-> dir, name |-> name] \notin fs_files
    /\ IsTree(fs_files \cup {[dir |-> dir, name |-> name]})
    /\ fs_files' = fs_files \cup {[dir |-> dir, name |-> name]}
    /\ UNCHANGED <<found, find_proc, rvars, cvars>>

\* _find_service_ymls starts find as a child process (subprocess.Popen)
StartFind ==
    /\ found = NotSearched
    /\ ~find_proc.running
    /\ find_proc' = [running |-> TRUE, start |-> find_lines(fs_files), printed |-> <<>>]
    /\ UNCHANGED <<fs_files, found, rvars, cvars>>

\* find comes to a path of the tree as it is by now and prints it
FindPrints(line) ==
    /\ find_proc.running
    /\ line \in find_lines(fs_files) \ Range(find_proc.printed)
    /\ find_proc' = [find_proc EXCEPT !.printed = Append(@, line)]
    /\ UNCHANGED <<fs_files, found, rvars, cvars>>

\* find has walked the tree it was started on and ends; communicate()
\* returns its output and _find_service_ymls its list
FindServiceYmls ==
    /\ find_proc.running
    /\ find_proc.start \subseteq Range(find_proc.printed)
    /\ found' = _find_service_ymls(PROJECT_ROOT, find_proc.printed)
    /\ find_proc' = [find_proc EXCEPT !.running = FALSE]
    /\ UNCHANGED <<fs_files, rvars, cvars>>

\* whether a returned path is a directory of the tree
IsDirectory(path) ==
    \E d \in Dirs(fs_files) : path = path_join(PROJECT_ROOT, DirLine(d))

\* Project.load_from_dir, after the search: the project is loaded from the
\* manifests found
LoadFromDir ==
    /\ found # NotSearched
    /\ result = NoResult
    /\ LET specs == [f \in Range(found) |->
                        IF IsDirectory(f) THEN Directory ELSE Manifest(None)]
       IN  /\ svc_ymls' = found
           /\ svc_spec' = specs
           /\ \E o \in Enumerations(DOMAIN root_spec.groups) :
                LET loaded == Project_load_from_files(root_spec, found, specs, o)
                IN  result' = [op |-> "load", selector |-> "",
                               out |-> IF loaded.kind # "ok" THEN NotLoaded(loaded.kind)
                                       ELSE Returned(DOMAIN loaded.services_by_name,
                                                     <<>>, <<>>)]
    /\ UNCHANGED <<root_spec, profile_spec, fvars, cvars>>

InitFind ==
    /\ InitManifests
    /\ InitCache
    /\ fs_files = {[dir |-> <<>>, name |-> ADSROOT_YML]}
    /\ found = NotSearched
    /\ find_proc = NoFind

NextFind ==
    \/ \E dir \in AllDirs, name \in {ADS_YML, ADSROOT_YML} : CreateFile(dir, name)
    \/ StartFind
    \/ \E line \in find_lines(fs_files) : FindPrints(line)
    \/ FindServiceYmls
    \/ LoadFromDir

SpecFind == InitFind /\ [][NextFind]_vars

(***************************************************************************)
(* Cache                                                                   *)
(***************************************************************************)
\* Cache.load_from_cache: an absent file is an empty mapping
load_from_cache(file) == IF file = Absent THEN EmptyMap ELSE file.entries

\* dict.update
MapUpdate(m, updates) ==
    [n \in DOMAIN m \cup DOMAIN updates |->
        IF n \in DOMAIN updates THEN updates[n] ELSE m[n]]

\* variant: the updates replace the existing content instead of merging
merged_cache_updates_only(cache, project_file, updates, updates_last) ==
    IF updates_last THEN MapUpdate(MapPut(EmptyMap, "adsroot", project_file), updates)
    ELSE MapPut(updates, "adsroot", project_file)

\* the mapping writeToCache persists: the existing content, the updates and
\* the synthetic "adsroot" entry. When the updates hold the key "adsroot"
\* themselves, which of the two entries the key keeps depends on the order in
\* which they are merged (updates_last), which the specification leaves open.
merged_cache(cache, project_file, updates, updates_last) ==
    IF updates_last THEN MapUpdate(MapPut(cache, "adsroot", project_file), updates)
    ELSE MapPut(MapUpdate(cache, updates), "adsroot", project_file)

\* Cache.get: a hit returns the cached path, a miss the path found by the
\* live lookup, which is written through to the in-memory mapping
Cache_get(cache, name, live) ==
    IF name \in DOMAIN cache THEN [value |-> cache[name], cache |-> cache]
    ELSE [value |-> live, cache |-> MapPut(cache, name, live)]

Pairs(m) == {<<n, m[n]>> : n \in DOMAIN m}

Restrict(m, K) == [n \in K |-> m[n]]

\* the orders of merging that give different mappings: one, unless the
\* updates hold the key "adsroot"
MergeOrders(updates) == IF "adsroot" \in DOMAIN updates THEN BOOLEAN ELSE {FALSE}

\* a process starts: the Cache object is built from the file
Load(p) ==
    /\ pc[p] = "start"
    /\ mem' = [mem EXCEPT ![p] = load_from_cache(cache_file)]
    /\ half_loaded' = [half_loaded EXCEPT ![p] =
            cache_file # Absent /\ ~cache_file.complete]
    /\ pc' = [pc EXCEPT ![p] = "loaded"]
    /\ UNCHANGED <<cache_file, temp_file, rvars, fvars>>

Get(p, name, live) ==
    /\ pc[p] = "loaded"
    /\ mem' = [mem EXCEPT ![p] = Cache_get(mem[p], name, live).cache]
    /\ UNCHANGED <<cache_file, temp_file, pc, half_loaded, rvars, fvars>>

\* variant: the mapping is written over the cache file itself
WriteToCache_in_place(p, project_file, updates) ==
    /\ pc[p] = "loaded"
    /\ \E updates_last \in MergeOrders(updates) :
       LET new == merged_cache(mem[p], project_file, updates, updates_last)
       IN  /\ mem' = [mem EXCEPT ![p] = new]
           /\ \E K \in SUBSET DOMAIN new :
                /\ K # DOMAIN new
                /\ cache_file' = [exists |-> TRUE, entries |-> Restrict(new, K), complete |-> FALSE]
    /\ pc' = [pc EXCEPT ![p] = "writing"]
    /\ UNCHANGED <<temp_file, half_loaded, rvars, fvars>>

\* writeToCache, first part: merge in memory, open the temporary file and
\* write some of the mapping to it
WriteToCache(p, project_file, updates) ==
    /\ pc[p] = "loaded"
    /\ \E updates_last \in MergeOrders(updates) :
       LET new == merged_cache(mem[p], project_file, updates, updates_last)
       IN  /\ mem' = [mem EXCEPT ![p] = new]
           /\ \E K \in SUBSET DOMAIN new :
                /\ K # DOMAIN new
                /\ temp_file' = [temp_file EXCEPT ![p] =
                        [exists |-> TRUE, entries |-> Restrict(new, K), complete |-> FALSE]]
    /\ pc' = [pc EXCEPT ![p] = "writing"]
    /\ UNCHANGED <<cache_file, half_loaded, rvars, fvars>>

\* writeToCache, second part: the rest of the mapping reaches the temporary file
FinishTemp(p) ==
    /\ pc[p] = "writing"
    /\ temp_file[p] # Absent
    /\ temp_file' = [temp_file EXCEPT ![p] = [exists |-> TRUE, entries |-> mem[p], complete |-> TRUE]]
    /\ pc' = [pc EXCEPT ![p] = "written"]
    /\ UNCHANGED <<cache_file, mem, half_loaded, rvars, fvars>>

\* writeToCache, last part: the temporary file replaces the cache file
Replace(p) ==
    /\ pc[p] = "written"
    /\ cache_file' = temp_file[p]
    /\ temp_file' = [temp_file EXCEPT ![p] = Absent]
    /\ pc' = [pc EXCEPT ![p] = "loaded"]
    /\ UNCHANGED <<mem, half_loaded, rvars, fvars>>

\* the process ends, at any step of a write or between calls; what it left
\* in its temporary file stays there until its next write
Crash(p) ==
    /\ pc[p] # "start"
    /\ pc' = [pc EXCEPT ![p] = "start"]
    /\ mem' = [mem EXCEPT ![p] = EmptyMap]
    /\ half_loaded' = [half_loaded EXCEPT ![p] = FALSE]
    /\ UNCHANGED <<cache_file, temp_file, rvars, fvars>>

(***************************************************************************)
(* What the processes wrote, as the claims about the cache read it         *)
(***************************************************************************)
\* the calls of writeToCache a Cache object has had
cache_calls == <<last_written, last_root, last_adsroot>>

\* writeToCache(project_file, updates) is called on the Cache object of p
RecordCall(p, project_file, updates) ==
    /\ last_written' = [last_written EXCEPT ![p] = MapUpdate(@, updates)]
    /\ last_root' = [last_root EXCEPT ![p] = project_file]
    /\ last_adsroot' = [last_adsroot EXCEPT ![p] =
            IF "adsroot" \in DOMAIN updates THEN updates["adsroot"] ELSE None]

\* the Cache object of p is gone
ForgetCalls(p) ==
    /\ last_written' = [last_written EXCEPT ![p] = EmptyMap]
    /\ last_root' = [last_root EXCEPT ![p] = None]
    /\ last_adsroot' = [last_adsroot EXCEPT ![p] = None]

\* the entries a call puts into the mapping on its own account: those of the
\* updates and the synthetic one of writeToCache, the live lookup of a get
\* that missed
WrittenBy(project_file, updates) == Pairs(updates) \cup {<<"adsroot", project_file>>}

WrittenThrough(p, name, live) == IF name \in DOMAIN mem[p] THEN {} ELSE {<<name, live>>}

(***************************************************************************)
(* Processes racing on the cache file (what each wrote is recorded)        *)
(***************************************************************************)
\* the updates of the racing processes: paths of services, or none
Updates == UNION {[K -> ServicePaths] : K \in SUBSET (CacheNames \ {"adsroot"})}

InitCacheSpec == InitManifests /\ InitTree /\ InitCache

NextCache ==
    \/ \E p \in Procs : Load(p) /\ UNCHANGED <<cache_calls, wrote>>
    \/ \E p \in Procs, n \in CacheNames, live \in ServicePaths :
            /\ Get(p, n, live)
            /\ wrote' = wrote \cup WrittenThrough(p, n, live)
            /\ UNCHANGED cache_calls
    \/ \E p \in Procs, r \in RootPaths, u \in Updates :
            /\ WriteToCache(p, r, u)
            /\ wrote' = wrote \cup WrittenBy(r, u)
            /\ UNCHANGED cache_calls
    \/ \E p \in Procs : FinishTemp(p) /\ UNCHANGED <<cache_calls, wrote>>
    \/ \E p \in Procs : Replace(p) /\ UNCHANGED <<cache_calls, wrote>>
    \/ \E p \in Procs : Crash(p) /\ UNCHANGED <<cache_calls, wrote>>

SpecCache == InitCacheSpec /\ [][NextCache]_vars

(***************************************************************************)
(* The round trip of a Cache object (its calls are recorded)               *)
(***************************************************************************)
RoundTripUpdates == UNION {[K -> ServicePaths] : K \in SUBSET RoundTripNames \ {{}}}

NextRoundTrip ==
    \/ \E p \in RoundTripProcs : Load(p) /\ UNCHANGED <<cache_calls, wrote>>
    \/ \E p \in RoundTripProcs, n \in RoundTripNames, live \in ServicePaths :
            Get(p, n, live) /\ UNCHANGED <<cache_calls, wrote>>
    \/ \E p \in RoundTripProcs, r \in RoundTripRootPaths, u \in RoundTripUpdates :
            WriteToCache(p, r, u) /\ RecordCall(p, r, u) /\ UNCHANGED wrote
    \/ \E p \in RoundTripProcs : FinishTemp(p) /\ UNCHANGED <<cache_calls, wrote>>
    \/ \E p \in RoundTripProcs : Replace(p) /\ UNCHANGED <<cache_calls, wrote>>
    \/ \E p \in RoundTripProcs : Crash(p) /\ ForgetCalls(p) /\ UNCHANGED wrote

SpecRoundTrip == InitCacheSpec /\ [][NextRoundTrip]_vars

(***************************************************************************)
(* The group graph of the root manifest, as the claims speak of it         *)
(***************************************************************************)
\* the names of the services of the manifests handed to the load
ServicesLoaded == service_names(svc_ymls)

\* n is looked up as a group: neither "all" nor a service shadows it
Expanded(n) ==
    n \notin {"", "all"} /\ n \notin ServicesLoaded /\ n \in DOMAIN root_spec.groups

Members(n) == IF Expanded(n) THEN Range(root_spec.groups[n]) ELSE {}

RECURSIVE Closure(_)
Closure(S) ==
    LET T == S \cup UNION {Members(n) : n \in S}
    IN  IF T = S THEN S ELSE Closure(T)

OnCycle(n) == Expanded(n) /\ n \in Closure(Members(n))

CycleReachable(top) == \E n \in Closure({top}) : OnCycle(n)

\* neither "all", nor a service, nor a group (nor the empty string)
Unknown(n) ==
    n \notin {"", "all"} /\ n \notin ServicesLoaded /\ n \notin DOMAIN root_spec.groups

\* c is a path of the group graph
IsPath(c) ==
    \A i \in 1..(Len(c) - 1) : Expanded(c[i]) /\ c[i + 1] \in Members(c[i])

Resolved == result.op = "resolve"

\* the loaded project as the claims read it: its services, its default and
\* its groups by name, none of which depends on the order of its service sets
LoadedProject == project(CHOOSE o \in Enumerations(DOMAIN root_spec.groups) : TRUE)

(***************************************************************************)
(* Claims about the resolver (specification Spec)                          *)
(***************************************************************************)
\* C1 (as stated): whenever resolution fails as circular, the reported chain
\* starts at the first occurrence of the repeated selector and ends at its
\* repetition, and the selector named as circular is the repeated one.
C1_ChainStartsAtRepeatedSelector ==
    (Resolved /\ result.out.kind = "Circular") =>
        LET c == result.out.chain
        IN  c[1] = c[Len(c)] /\ result.out.named = c[Len(c)]

\* nothing reachable from top fails on its own account: no empty selector,
\* no unknown selector, no group without members
OnlyCyclesFail(top) ==
    \A n \in Closure({top}) :
        /\ n # ""
        /\ ~Unknown(n)
        /\ Expanded(n) => root_spec.groups[n] # <<>>

\* C1 (amended): every lookup of a selector that is already on the expansion
\* stack is the last invocation of the resolution and raises the Circular
\* error, whose chain is the whole stack, from the top-level selector down,
\* followed by the repeated selector, and which names the top-level selector.
\* A top-level selector that reaches a cycle of groups never resolves, and
\* fails with the Circular error unless a member expanded before the
\* repetition fails on its own account; the Circular error is raised for
\* nothing but a cycle.
C1_CircularReportsWholePath ==
    Resolved =>
        /\ \A i \in DOMAIN result.out.calls :
            LET call == result.out.calls[i]
            IN  (call.selector # "" /\ call.selector \in Range(call.stack)) =>
                    /\ i = Len(result.out.calls)
                    /\ call.kind = "Circular"
                    /\ result.out.kind = "Circular"
                    /\ result.out.chain = Append(call.stack, call.selector)
                    /\ result.out.named = result.selector
        /\ CycleReachable(result.selector) => result.out.kind # "ok"
        /\ (CycleReachable(result.selector) /\ OnlyCyclesFail(result.selector))
                => result.out.kind = "Circular"
        /\ result.out.kind = "Circular" =>
            LET c == result.out.chain
                last == result.out.calls[Len(result.out.calls)]
            IN  /\ CycleReachable(result.selector)
                /\ last.selector \in Range(last.stack)
                /\ Len(c) >= 2
                /\ c[1] = result.selector
                /\ result.out.named = result.selector
                /\ IsPath(c)
                /\ \E i \in 1..(Len(c) - 1) : c[i] = c[Len(c)]
                /\ \A i, j \in 1..(Len(c) - 1) : i # j => c[i] # c[j]

\* C1 witness: x = [a], a = [b], b = [a] resolved from x
C1_Witness ==
    /\ Resolved
    /\ result.out.kind = "Circular"
    /\ Len(result.out.chain) = 4
    /\ result.out.chain[1] # result.out.chain[4]
    /\ result.out.chain[2] = result.out.chain[4]
    /\ result.out.calls[Len(result.out.calls)].selector = result.out.chain[4]

\* C2: every invocation on a group whose selector list is empty, top-level or
\* as a member of another group, returns the empty set.
C2_EmptyGroupIsEmptySet ==
    Resolved =>
        \A i \in DOMAIN result.out.calls :
            LET call == result.out.calls[i]
            IN  (Expanded(call.selector) /\ root_spec.groups[call.selector] = <<>>)
                    => (call.kind = "ok" /\ call.value = {})

\* C3: every invocation on "all", top-level or reached through group
\* expansion, returns exactly the service names of the project, whatever the
\* groups are.
C3_AllIsEveryService ==
    Resolved =>
        \A i \in DOMAIN result.out.calls :
            LET call == result.out.calls[i]
            IN  call.selector = "all" =>
                    /\ call.kind = "ok"
                    /\ call.value = ServicesLoaded
                    /\ call.after = call.stack
                    /\ (i = 1 => result.out.kind = "ok" /\ result.out.value = ServicesLoaded)

\* C3 witness: "all" reached as a member while a non-empty group is itself
\* named "all" and the project has a service
C3_Witness ==
    /\ Resolved
    /\ ServicesLoaded # {}
    /\ "all" \in DOMAIN root_spec.groups
    /\ root_spec.groups["all"] # <<>>
    /\ \E i \in DOMAIN result.out.calls :
            i > 1 /\ result.out.calls[i].selector = "all"

\* C4: a group whose expansion is acyclic and fully resolvable resolves to the
\* union of what its member selectors resolve to.
C4_GroupIsUnionOfMembers ==
    (/\ Resolved
     /\ Expanded(result.selector)
     /\ ~CycleReachable(result.selector)
     /\ \A n \in Closure({result.selector}) :
            n = "all" \/ n \in ServicesLoaded \/ n \in DOMAIN root_spec.groups)
        => /\ result.out.kind = "ok"
           /\ result.out.value =
                UNION {ServiceSet_resolve(m, LoadedProject, LoadedProject.service_sets).value :
                            m \in Members(result.selector)}

\* C5 (as stated): an Unresolved error names the unknown selector and reports
\* as chain the selectors traversed to reach it: the stack at the failing
\* lookup, which is empty for a top-level selector.
C5_ChainIsTraversedSelectors ==
    (Resolved /\ result.out.kind = "Unresolved") =>
        LET call == result.out.calls[Len(result.out.calls)]
        IN  /\ result.out.named = call.selector
            /\ result.out.chain = call.stack

\* C5 (amended): an invocation on a non-empty selector that is neither "all",
\* nor a service, nor a group ends the resolution with an Unresolved error
\* that names the selector and whose chain is the path of groups traversed
\* from the top-level selector followed by the selector itself; for a
\* top-level unknown selector the chain is that selector alone.
C5_UnresolvedChainEndsWithSelector ==
    Resolved =>
        \A i \in DOMAIN result.out.calls :
            LET call == result.out.calls[i]
            IN  Unknown(call.selector) =>
                    /\ i = Len(result.out.calls)
                    /\ call.kind = "Unresolved"
                    /\ result.out.kind = "Unresolved"
                    /\ result.out.named = call.selector
                    /\ result.out.chain = Append(call.stack, call.selector)
                    /\ result.out.chain[1] = result.selector
                    /\ IsPath(result.out.chain)
                    /\ (i = 1 => result.out.chain = <<result.selector>>)

\* C5 witness: an unknown selector reached through two groups
C5_Witness ==
    /\ Resolved
    /\ result.out.kind = "Unresolved"
    /\ Len(result.out.chain) = 3
    /\ Unknown(result.out.named)

\* C11: at every invocation the expansion stack is exactly the path of groups
\* from the top-level selector to the selector looked up, without repetition;
\* every invocation that returns leaves the stack as it found it; and a
\* Circular error is raised only when a cycle of groups is reachable from the
\* top-level selector, so a group reached twice along different paths is not
\* reported as circular.
C11_StackIsCurrentPath ==
    Resolved =>
        /\ \A i \in DOMAIN result.out.calls :
            LET call == result.out.calls[i]
            IN  /\ (i = 1) <=> (call.stack = <<>>)
                /\ i > 1 => call.stack[1] = result.selector
                /\ IsPath(Append(call.stack, call.selector))
                /\ \A j, k \in DOMAIN call.stack : j # k => call.stack[j] # call.stack[k]
                /\ call.kind = "ok" => call.after = call.stack
        /\ result.out.kind = "ok" => result.out.stack = <<>>
        /\ result.out.kind = "Circular" => CycleReachable(result.selector)
        /\ ~CycleReachable(result.selector) => result.out.kind # "Circular"

\* C11 witness: a = [b, c], b = [d], c = [d] resolved from a: d is looked up
\* once under a, b and once under a, c, and the resolution succeeds
C11_Witness ==
    /\ Resolved
    /\ result.selector = "a"
    /\ root_spec.groups["a"] = <<"b", "c">>
    /\ root_spec.groups["b"] = <<"d">>
    /\ root_spec.groups["c"] = <<"d">>
    /\ result.out.kind = "ok"
    /\ \E i, j \in DOMAIN result.out.calls :
            /\ result.out.calls[i].selector = "d"
            /\ result.out.calls[i].stack = <<"a", "b">>
            /\ result.out.calls[j].selector = "d"
            /\ result.out.calls[j].stack = <<"a", "c">>

(***************************************************************************)
(* Claims about the facade (specification SpecAds)                         *)
(***************************************************************************)
\* the default selector the manifests call for
ChosenDefault ==
    IF profile_spec.default \notin {None, ""} THEN profile_spec.default
    ELSE IF root_spec.default \notin {None, ""} THEN root_spec.default
    ELSE "all"

\* project groups together with profile groups
VisibleGroups ==
    [n \in DOMAIN root_spec.groups \cup DOMAIN profile_spec.groups |->
        ServiceSet(n, IF n \in DOMAIN profile_spec.groups
                      THEN profile_spec.groups[n] ELSE root_spec.groups[n])]

\* C6: resolve("default") is the resolution of the profile's default when the
\* profile gives one, else of the project's default ("all" when the root
\* manifest gives none), over the project groups together with the profile
\* groups.
C6_DefaultIsProfileThenProject ==
    (result.op = "ads_resolve" /\ result.selector = "default") =>
        result.out = _resolve(ChosenDefault, LoadedProject, VisibleGroups, <<>>)

\* C6 witness: both manifests give a default, the profile's names a profile
\* group, and the resolution succeeds
C6_Witness ==
    /\ result.op = "ads_resolve"
    /\ result.selector = "default"
    /\ Truthy(profile_spec.default)
    /\ Truthy(root_spec.default)
    /\ profile_spec.default # root_spec.default
    /\ profile_spec.default \in DOMAIN profile_spec.groups
    /\ profile_spec.default \notin ServicesLoaded
    /\ result.out.kind = "ok"

\* C7: list() always completes, and shows "(Unresolved)" for a default
\* selector that fails to resolve.
C7_ListNeverPropagates ==
    result.op = "list" =>
        /\ result.out.kind = "ok"
        /\ _resolve(ChosenDefault, LoadedProject, VisibleGroups, <<>>).kind # "ok"
                => result.out.default_description = "(Unresolved)"

\* the selector list the merged namespace holds for a group name: the
\* profile's when the profile defines the name, else the project's
ListedUnder(name) ==
    IF name \in DOMAIN profile_spec.groups
    THEN profile_spec.groups[name] ELSE root_spec.groups[name]

\* C12: "all" is looked up first, then service names, then group names. An
\* invocation on "all" returns every service and expands nothing, whatever
\* service or group bears that name; an invocation on a service name returns
\* the singleton of that service and expands nothing, so the name never enters
\* the expansion stack and the outcome does not depend on the group of that
\* name; an invocation on any other name that a group bears (and that is not
\* already being expanded) looks up the selectors of the profile's list when
\* the profile defines the name, else of the project's list, in order, and no
\* others.
C12_LookupPrecedence ==
    result.op = "ads_resolve" =>
        \A i \in DOMAIN result.out.calls :
            LET call == result.out.calls[i]
                calls == result.out.calls
                inside == Append(call.stack, call.selector)
                children == {j \in DOMAIN calls : j > i /\ calls[j].stack = inside}
            IN  /\ call.selector = "all" =>
                    /\ call.kind = "ok"
                    /\ call.value = ServicesLoaded
                    /\ children = {}
                /\ (call.selector # "all" /\ call.selector \in ServicesLoaded) =>
                    /\ call.kind = "ok"
                    /\ call.value = {call.selector}
                    /\ children = {}
                /\ call.selector \in ServicesLoaded \cup {"all"} =>
                    \A j \in DOMAIN calls : call.selector \notin Range(calls[j].stack)
                /\ (/\ call.selector \notin {"", "all"}
                    /\ call.selector \notin Range(call.stack)
                    /\ call.selector \notin ServicesLoaded
                    /\ call.selector \in DOMAIN root_spec.groups
                                         \cup DOMAIN profile_spec.groups) =>
                    LET listed == ListedUnder(call.selector)
                    IN  /\ \A j \in children : calls[j].selector \in Range(listed)
                        /\ listed # <<>> =>
                            /\ i < Len(calls)
                            /\ calls[i + 1].selector = listed[1]
                            /\ calls[i + 1].stack = inside
                        /\ call.kind = "ok" =>
                            /\ {calls[j].selector : j \in children} = Range(listed)
                            /\ call.value = UNION {calls[j].value : j \in children}

\* C12 witness: g is a project group listing the unknown b and a profile group
\* listing a and all; a is a service and a project group listing b, and all is
\* a project group listing b; resolving g yields the services, with one
\* invocation each on g, a and all
C12_Witness ==
    /\ result.op = "ads_resolve"
    /\ result.selector = "g"
    /\ ServicesLoaded = {"a", "all"}
    /\ root_spec.groups["g"] = <<"b">>
    /\ root_spec.groups["a"] = <<"b">>
    /\ root_spec.groups["all"] = <<"b">>
    /\ "g" \in DOMAIN profile_spec.groups
    /\ profile_spec.groups["g"] = <<"a", "all">>
    /\ "a" \in DOMAIN profile_spec.groups
    /\ profile_spec.groups["a"] = <<"a">>
    /\ result.out.kind = "ok"
    /\ result.out.value = {"a", "all"}
    /\ Len(result.out.calls) = 3

(***************************************************************************)
(* Claims about service-manifest enumeration (specification SpecFind)      *)
(***************************************************************************)
\* the service manifests find reports
FoundManifests == {f \in fs_files : f.name = ADS_YML /\ Len(f.dir) >= 1}

\* a directory on the path of f, strictly below the project root, holds a
\* root manifest
InNestedProject(f) ==
    \E k \in 1..Len(f.dir) :
        [dir |-> SubSeq(f.dir, 1, k), name |-> ADSROOT_YML] \in fs_files

\* C10: a service manifest is returned if and only if no directory on its
\* path strictly below the project root holds a root manifest; a manifest in a
\* sibling directory whose path only begins with the characters of a nested
\* project's directory is returned.
C10_ExcludesExactlyNestedSubtrees ==
    (found # NotSearched /\ find_proc.start = find_lines(fs_files)) =>
        \A f \in FoundManifests :
            (path_join(PROJECT_ROOT, FindLine(f)) \in Range(found))
                <=> ~InNestedProject(f)

(***************************************************************************)
(* Claims about the cache (specifications SpecRoundTrip and SpecCache)     *)
(***************************************************************************)
\* what get(name) returns on the in-memory mapping of p when name is cached
Gets(p, name) == Cache_get(mem[p], name, "<live lookup>").value

\* C8 (as stated): get returns the most recently written path for every name
\* of any update, and "adsroot" maps to the manifest path of the latest write.
C8_GetReturnsEveryWrittenName ==
    \A p \in Procs :
        /\ \A n \in DOMAIN last_written[p] : Gets(p, n) = last_written[p][n]
        /\ last_root[p] # None =>
                "adsroot" \in DOMAIN mem[p] /\ mem[p]["adsroot"] = last_root[p]

\* C8 (amended): get returns the most recently written path for every name
\* of any update other than the reserved key "adsroot", entries written by
\* earlier calls included; "adsroot" is present after every write and maps to
\* the manifest path of the latest write when the updates of that write do
\* not hold the key "adsroot" themselves, and to that path or to the path the
\* updates give the key when they do.
C8_GetReturnsWrittenServiceNames ==
    \A p \in Procs :
        /\ \A n \in DOMAIN last_written[p] \ {"adsroot"} :
                n \in DOMAIN mem[p] /\ Gets(p, n) = last_written[p][n]
        /\ last_root[p] # None =>
                /\ "adsroot" \in DOMAIN mem[p]
                /\ last_adsroot[p] = None => mem[p]["adsroot"] = last_root[p]
                /\ last_adsroot[p] # None
                        => mem[p]["adsroot"] \in {last_root[p], last_adsroot[p]}

\* C8 witness: a process has given one name in an earlier write and another
\* in its latest, which named another project manifest than the write that
\* filled the cache file and replaced the path the file has for the name
C8_Witness ==
    \E p \in Procs :
        /\ cache_file # Absent
        /\ last_root[p] # None /\ last_adsroot[p] = None
        /\ cache_file.entries["adsroot"] # last_root[p]
        /\ mem[p]["adsroot"] = last_root[p]
        /\ {"svc", "web"} \subseteq DOMAIN last_written[p]
        /\ {"svc", "web"} \subseteq DOMAIN cache_file.entries
        /\ cache_file.entries["svc"] = last_written[p]["svc"]
        /\ cache_file.entries["web"] # last_written[p]["web"]
        /\ mem[p]["svc"] = last_written[p]["svc"]
        /\ mem[p]["web"] = last_written[p]["web"]

\* C9: the cache file is absent or a mapping some process wrote in full, no
\* load has read a partly written file, and every entry of the file maps its
\* name to a path some process put there for that name.
C9_FileIsAlwaysAWholeMapping ==
    /\ cache_file # Absent =>
            /\ cache_file.complete
            /\ Pairs(cache_file.entries) \subseteq wrote
            /\ "adsroot" \in DOMAIN cache_file.entries
    /\ \A p \in Procs :
            /\ ~half_loaded[p]
            /\ pc[p] # "start" => Pairs(mem[p]) \subseteq wrote

\* C9 witness: one process has replaced the file while the other, which
\* loaded before, is in the middle of writing its temporary file: an entry of
\* the first is about to be lost
C9_Witness ==
    \E p, q \in Procs :
        /\ p # q
        /\ pc[p] = "writing"
        /\ temp_file[p] # Absent /\ ~temp_file[p].complete
        /\ cache_file # Absent
        /\ "svc" \in DOMAIN cache_file.entries
        /\ "svc" \notin DOMAIN mem[p]
        /\ pc[q] = "loaded"

====
